---- MODULE Spec2Model ----
(***************************************************************************)
(* Model of src/main.py: the resumable enumeration-and-dedup engine.       *)
(*                                                                         *)
(* A string is a sequence of one-character strings; the output file is a   *)
(* sequence of characters in which "\n" ends a line.  `disk` is what a     *)
(* reader of the file sees, `buf` is what f.write() has accepted and       *)
(* f.flush() has not yet handed over.  One run of main() is a walk of `pc` *)
(* from "validate" to "exit"; the file outlives the run.                   *)
(***************************************************************************)
EXTENDS Integers, Sequences, FiniteSets, TLC

\* ---------------------------------------------------------------- bounds
MaxLen == 2
MaxRuns == 2
MaxFlushEvery == 2
MaxReportEvery == 2

\* ------------------------------------------------------------- constants
\* CHARSET (line 16) has 93 symbols; the model keeps two of them.
CHARSET == <<"a", "b">>
NL == "\n"

NoExc == "none"

RECURSIVE Pow(_, _)
Pow(b, e) == IF e = 0 THEN 1 ELSE b * Pow(b, e - 1)

\* len(CHARSET) ** L
Possible(L) == Pow(Len(CHARSET), L)

\* ------------------------------------------------------------- scanner
\* Index of the first "\n" of c, 0 when there is none.
RECURSIVE FirstNL(_, _)
FirstNL(c, i) ==
    IF i > Len(c) THEN 0
    ELSE IF c[i] = NL THEN i ELSE FirstNL(c, i + 1)

\* `for line in f`: the lines of the file, each with its "\n"; a last line
\* without "\n" is a line too.
RECURSIVE FileLines(_)
FileLines(c) ==
    IF c = <<>> THEN <<>>
    ELSE LET n == FirstNL(c, 1)
         IN  IF n = 0 THEN <<c>>
             ELSE <<SubSeq(c, 1, n)>> \o FileLines(SubSeq(c, n + 1, Len(c)))

\* line.rstrip("\n\r")
RECURSIVE RStrip(_)
RStrip(line) ==
    IF line # <<>> /\ line[Len(line)] = NL
    THEN RStrip(SubSeq(line, 1, Len(line) - 1))
    ELSE line

\* scan_existing_by_len without the rstrip of line 25: the "\n" is counted
\* and kept.
scan_without_rstrip(exists, content, target_len) ==
    IF exists
    THEN LET lines == FileLines(content)
         IN  {lines[i] : i \in {j \in 1..Len(lines) : Len(lines[j]) = target_len}}
    ELSE {}

\* scan_existing_by_len: the distinct lines of length target_len.
scan_existing_by_len(exists, content, target_len) ==
    IF exists
    THEN LET lines == FileLines(content)
         IN  {RStrip(lines[i]) : i \in {j \in 1..Len(lines) : Len(RStrip(lines[j])) = target_len}}
    ELSE {}

\* ----------------------------------------------------------- generator
\* A product whose positions all advance together.
TupleInStep(pools, i) ==
    [p \in 1..Len(pools) |-> pools[p][(i % Len(CHARSET)) + 1]]

\* itertools.product(*pools): the i-th tuple (i from 0) in odometer order,
\* the rightmost position advancing fastest.
Tuple(pools, i) ==
    [p \in 1..Len(pools) |->
        pools[p][((i \div Pow(Len(CHARSET), Len(pools) - p)) % Len(CHARSET)) + 1]]

\* A draw with replacement (random.choices) in place of rng.shuffle.
DrawnWithReplacement ==
    {[i \in 1..Len(CHARSET) |-> CHARSET[f[i]]] :
        f \in [1..Len(CHARSET) -> 1..Len(CHARSET)]}

\* rng.shuffle(chars): any permutation of the charset.
Shuffled ==
    {[i \in 1..Len(CHARSET) |-> CHARSET[f[i]]] :
        f \in {g \in [1..Len(CHARSET) -> 1..Len(CHARSET)] :
                  \A x, y \in 1..Len(CHARSET) : x # y => g[x] # g[y]}}

\* The per-position pools main() may hand to itertools.product.
Pools(shuffle, L) ==
    IF shuffle THEN [1..L -> Shuffled] ELSE {[p \in 1..L |-> CHARSET]}

\* ------------------------------------------------------------- arguments
FlushEveryChoices == 0..MaxFlushEvery
\* --report-every: on every line written, and at the widest spacing
ReportEveryChoices == {1, MaxReportEvery}

Configs ==
    [min_len : 0..MaxLen, max_len : 1..MaxLen, shuffle : BOOLEAN,
     flush_every : FlushEveryChoices, report_every : ReportEveryChoices]

\* line 163 without its second test
ValidBoundsMinOnly(c) == ~(c.min_len < 1)

\* line 163, negated
ValidBounds(c) == ~(c.min_len < 1 \/ c.max_len < c.min_len)

VARIABLES
    runs,          \* runs of main() started so far
    cfg,           \* args
    pc,            \* the statement main() is about to execute
    exc,           \* the exception propagating, NoExc when none
    exit_code,     \* -1 while running, then the process's exit status
    fileExists,    \* the output file exists
    disk,          \* the output file's content as a reader sees it
    fopen,         \* f is open
    buf,           \* written to f, not yet flushed
    L,             \* loop variable of line 197
    have,          \* ExistingSet(L)
    per_pos,       \* the pools of iter_product
    idx,           \* tuples iter_product has yielded
    total_attempts, total_written, total_failed,
    per_len_stats,
    written_since_last_report, last_flush_written,
    report,        \* <<>> or <<the last report this run rendered>>
    \* ---- history, read by no action
    disk0,         \* the file's content when the run began
    prev,          \* how the previous run ended
    unsynced,      \* lines written since the last flush + fsync
    iterated,      \* per length, the candidates fetched
    interrupted,   \* where the run's first KeyboardInterrupt arrived
    after_int,     \* candidates fetched or written after an interrupt
    io_failed,     \* the I/O failures so far: "primary" (in the loop), "cleanup"
    cleaned,       \* the cleanup's flush, fsync and close were executed
    final_report,  \* line 316 was executed
    finished       \* line 293 was reached: every length was completed

vars == <<runs, cfg, pc, exc, exit_code, fileExists, disk, fopen, buf, L, have,
          per_pos, idx, total_attempts, total_written, total_failed,
          per_len_stats, written_since_last_report, last_flush_written, report,
          disk0, prev, unsynced, iterated, interrupted, after_int, io_failed,
          cleaned, final_report, finished>>

file == <<fileExists, disk, fopen, buf>>
gen == <<L, have, per_pos, idx>>
stats == <<total_attempts, total_written, total_failed, per_len_stats>>
marks == <<written_since_last_report, last_flush_written>>
hist == <<disk0, prev, unsynced, iterated, interrupted, after_int, io_failed,
          cleaned, final_report>>

EmptyDict == [l \in {} |-> 0]

\* The process as main() finds it: arguments parsed, nothing else done.
Fresh(c) ==
    /\ cfg = c
    /\ pc = "validate"
    /\ exc = NoExc
    /\ exit_code = -1
    /\ fopen = FALSE
    /\ buf = <<>>
    /\ L = 0
    /\ have = {}
    /\ per_pos = <<>>
    /\ idx = 0
    /\ total_attempts = 0
    /\ total_written = 0
    /\ total_failed = 0
    /\ per_len_stats = EmptyDict
    /\ written_since_last_report = 0
    /\ last_flush_written = 0
    /\ report = <<>>
    /\ unsynced = 0
    /\ iterated = [l \in 1..MaxLen |-> 0]
    /\ interrupted = "no"
    /\ after_int = 0
    /\ io_failed = {}
    /\ cleaned = FALSE
    /\ final_report = FALSE
    /\ finished = FALSE

Init ==
    /\ runs = 1
    /\ fileExists = FALSE
    /\ disk = <<>>
    /\ disk0 = <<>>
    /\ prev = "none"
    /\ \E c \in Configs : Fresh(c)

\* ------------------------------------------------------------ helpers
\* "".join(tup) of the tuple the generator yielded last
Cur == Tuple(per_pos, idx - 1)

\* the totals dict of lines 253-264, 279-290 and 304-315 with per_len_stats
Snapshot(kind) ==
    [kind |-> kind, attempts |-> total_attempts, success |-> total_written,
     failed |-> total_failed, per_len |-> per_len_stats]

Bump(field) ==
    [per_len_stats EXCEPT ![L] = [@ EXCEPT ![field] = @ + 1]]

\* line 242
FlushDue(written, every) == written % every = 0

\* line 251
ReportDue(since, every) == since >= every

\* line 268 with the flush of a length that saw no periodic flush left out
EndFlushAfterPeriodic(written, last) == last # 0 /\ written # last

\* line 268
EndFlushDue(written, last) == written # last

PreTry == {"validate", "open", "setup"}
InTry == {"for", "scan", "gen", "iter", "test", "dupstat", "add", "wstat",
          "flushchk", "repchk", "end_flush", "end_report", "done_msg"}
Cleanup == {"fin_flush", "fin_report"}

NoteFetch == after_int' = IF interrupted = "no" THEN after_int ELSE after_int + 1

\* ------------------------------------------------------------- main()
\* lines 163-165
Validate ==
    /\ pc = "validate"
    /\ IF ValidBounds(cfg)
       THEN pc' = "open" /\ exc' = exc
       ELSE pc' = "shutdown" /\ exc' = "SystemExit"
    /\ UNCHANGED <<runs, cfg, exit_code, file, gen, stats, marks, report, hist,
                   finished>>

\* lines 167-182: out_path.open("a") creates the file when it is absent
Open ==
    /\ pc = "open"
    /\ fileExists' = TRUE
    /\ fopen' = TRUE
    /\ pc' = "setup"
    /\ UNCHANGED <<runs, cfg, exc, exit_code, disk, buf, gen, stats, marks,
                   report, hist, finished>>

\* lines 184-196
Setup ==
    /\ pc = "setup"
    /\ total_attempts' = 0
    /\ total_written' = 0
    /\ total_failed' = 0
    /\ per_len_stats' = EmptyDict
    /\ pc' = "for"
    /\ UNCHANGED <<runs, cfg, exc, exit_code, file, gen, marks, report, hist,
                   finished>>

\* line 197: for L in range(args.min_len, args.max_len + 1)
ForNext ==
    /\ pc = "for"
    /\ LET nxt == IF L = 0 THEN cfg.min_len ELSE L + 1
       IN  IF nxt <= cfg.max_len
           THEN L' = nxt /\ pc' = "scan"
           ELSE L' = L /\ pc' = "done_msg"
    /\ UNCHANGED <<runs, cfg, exc, exit_code, file, have, per_pos, idx, stats,
                   marks, report, hist, finished>>

\* The loop without line 199: the existing-set starts empty.
ScanNothing ==
    /\ pc = "scan"
    /\ have' = {}
    /\ per_len_stats' =
          (L :> [possible |-> Possible(L), existing |-> 0,
                 written |-> 0, failed |-> 0]) @@ per_len_stats
    /\ pc' = "gen"
    /\ UNCHANGED <<runs, cfg, exc, exit_code, file, L, per_pos, idx,
                   total_attempts, total_written, total_failed, marks, report,
                   hist, finished>>

\* lines 198-207
Scan ==
    /\ pc = "scan"
    /\ have' = scan_existing_by_len(fileExists, disk, L)
    /\ per_len_stats' =
          (L :> [possible |-> Possible(L), existing |-> Cardinality(have'),
                 written |-> 0, failed |-> 0]) @@ per_len_stats
    /\ pc' = "gen"
    /\ UNCHANGED <<runs, cfg, exc, exit_code, file, L, per_pos, idx,
                   total_attempts, total_written, total_failed, marks, report,
                   hist, finished>>

\* lines 210-223
MakeGenerator ==
    /\ pc = "gen"
    /\ per_pos' \in Pools(cfg.shuffle, L)
    /\ idx' = 0
    /\ written_since_last_report' = 0
    /\ last_flush_written' = 0
    /\ pc' = "iter"
    /\ UNCHANGED <<runs, cfg, exc, exit_code, file, L, have, stats, report,
                   hist, finished>>

\* A generator that gives up one tuple early.
FetchOneShort ==
    /\ pc = "iter"
    /\ IF idx + 1 < Pow(Len(CHARSET), Len(per_pos))
       THEN /\ idx' = idx + 1
            /\ total_attempts' = total_attempts + 1
            /\ iterated' = [iterated EXCEPT ![L] = @ + 1]
            /\ NoteFetch
            /\ pc' = "test"
       ELSE /\ pc' = "end_flush"
            /\ UNCHANGED <<idx, total_attempts, iterated, after_int>>
    /\ UNCHANGED <<runs, cfg, exc, exit_code, file, L, have, per_pos,
                   total_written, total_failed, per_len_stats, marks, report,
                   disk0, prev, unsynced, interrupted, io_failed, cleaned,
                   final_report, finished>>

\* lines 225-226: the generator yields its next tuple, or is exhausted
Fetch ==
    /\ pc = "iter"
    /\ IF idx < Pow(Len(CHARSET), Len(per_pos))
       THEN /\ idx' = idx + 1
            /\ total_attempts' = total_attempts + 1
            /\ iterated' = [iterated EXCEPT ![L] = @ + 1]
            /\ NoteFetch
            /\ pc' = "test"
       ELSE /\ pc' = "end_flush"
            /\ UNCHANGED <<idx, total_attempts, iterated, after_int>>
    /\ UNCHANGED <<runs, cfg, exc, exit_code, file, L, have, per_pos,
                   total_written, total_failed, per_len_stats, marks, report,
                   disk0, prev, unsynced, interrupted, io_failed, cleaned,
                   final_report, finished>>

\* lines 227-229
Skip ==
    /\ pc = "test"
    /\ Cur \in have
    /\ total_failed' = total_failed + 1
    /\ pc' = "dupstat"
    /\ UNCHANGED <<runs, cfg, exc, exit_code, file, gen, total_attempts,
                   total_written, per_len_stats, marks, report, hist, finished>>

\* lines 230-231
DupStat ==
    /\ pc = "dupstat"
    /\ per_len_stats' = Bump("failed")
    /\ pc' = "iter"
    /\ UNCHANGED <<runs, cfg, exc, exit_code, file, gen, total_attempts,
                   total_written, total_failed, marks, report, hist, finished>>

\* lines 227-228 and 234: f.write(s + "\n") lands in f's buffer
Write ==
    /\ pc = "test"
    /\ Cur \notin have
    /\ buf' = buf \o Cur \o <<NL>>
    /\ unsynced' = unsynced + 1
    /\ NoteFetch
    /\ pc' = "add"
    /\ UNCHANGED <<runs, cfg, exc, exit_code, fileExists, disk, fopen, gen,
                   stats, marks, report, disk0, prev, iterated, interrupted,
                   io_failed, cleaned, final_report, finished>>

\* lines 235-236
AddCount ==
    /\ pc = "add"
    /\ have' = have \cup {Cur}
    /\ total_written' = total_written + 1
    /\ pc' = "wstat"
    /\ UNCHANGED <<runs, cfg, exc, exit_code, file, L, per_pos, idx,
                   total_attempts, total_failed, per_len_stats, marks, report,
                   hist, finished>>

\* lines 237-239
WStat ==
    /\ pc = "wstat"
    /\ per_len_stats' =
          [per_len_stats EXCEPT ![L] =
              [@ EXCEPT !.written = @ + 1, !.existing = @ + 1]]
    /\ written_since_last_report' = written_since_last_report + 1
    /\ pc' = "flushchk"
    /\ UNCHANGED <<runs, cfg, exc, exit_code, file, gen, total_attempts,
                   total_written, total_failed, last_flush_written, report,
                   hist, finished>>

\* f.flush(); os.fsync(f.fileno()) succeeding
Synced ==
    /\ disk' = disk \o buf
    /\ buf' = <<>>
    /\ unsynced' = 0

\* lines 242-248
FlushCheck ==
    /\ pc = "flushchk"
    /\ IF cfg.flush_every = 0
       THEN \* total_written % 0: ZeroDivisionError, which line 294 does not catch
            /\ exc' = "ZeroDivisionError"
            /\ pc' = "fin_flush"
            /\ UNCHANGED <<disk, buf, unsynced, last_flush_written>>
       ELSE /\ exc' = exc
            /\ pc' = "repchk"
            /\ IF FlushDue(total_written, cfg.flush_every)
               THEN Synced /\ last_flush_written' = total_written
               ELSE UNCHANGED <<disk, buf, unsynced, last_flush_written>>
    /\ UNCHANGED <<runs, cfg, exit_code, fileExists, fopen, gen, stats,
                   written_since_last_report, report, disk0, prev, iterated,
                   interrupted, after_int, io_failed, cleaned, final_report,
                   finished>>

\* lines 251-265
ReportCheck ==
    /\ pc = "repchk"
    /\ IF ReportDue(written_since_last_report, cfg.report_every)
       THEN /\ written_since_last_report' = 0
            /\ report' = <<Snapshot("periodic")>>
       ELSE UNCHANGED <<written_since_last_report, report>>
    /\ pc' = "iter"
    /\ UNCHANGED <<runs, cfg, exc, exit_code, file, gen, stats,
                   last_flush_written, hist, finished>>

\* lines 268-270
EndFlush ==
    /\ pc = "end_flush"
    /\ IF EndFlushDue(total_written, last_flush_written)
       THEN Synced
       ELSE UNCHANGED <<disk, buf, unsynced>>
    /\ pc' = "end_report"
    /\ UNCHANGED <<runs, cfg, exc, exit_code, fileExists, fopen, gen, stats,
                   marks, report, disk0, prev, iterated, interrupted, after_int,
                   io_failed, cleaned, final_report, finished>>

\* lines 272-291
EndReport ==
    /\ pc = "end_report"
    /\ report' = <<Snapshot("length")>>
    /\ pc' = "for"
    /\ UNCHANGED <<runs, cfg, exc, exit_code, file, gen, stats, marks, hist,
                   finished>>

\* line 293
DoneMsg ==
    /\ pc = "done_msg"
    /\ finished' = TRUE
    /\ pc' = "fin_flush"
    /\ UNCHANGED <<runs, cfg, exc, exit_code, file, gen, stats, marks, report,
                   hist>>

\* lines 294-295
Except ==
    /\ pc = "except"
    /\ pc' = "fin_flush"
    /\ UNCHANGED <<runs, cfg, exc, exit_code, file, gen, stats, marks, report,
                   hist, finished>>

\* lines 296-302: f.flush(); os.fsync(f.fileno()); f.close()
FinFlush ==
    /\ pc = "fin_flush"
    /\ Synced
    /\ fopen' = FALSE
    /\ cleaned' = TRUE
    /\ pc' = "fin_report"
    /\ UNCHANGED <<runs, cfg, exc, exit_code, fileExists, gen, stats, marks,
                   report, disk0, prev, iterated, interrupted, after_int,
                   io_failed, final_report, finished>>

\* lines 303-319; main() then returns, or the pending exception goes on
FinReport ==
    /\ pc = "fin_report"
    /\ report' = <<Snapshot("final")>>
    /\ final_report' = TRUE
    /\ pc' = "shutdown"
    /\ UNCHANGED <<runs, cfg, exc, exit_code, file, gen, stats, marks, disk0,
                   prev, unsynced, iterated, interrupted, after_int, io_failed,
                   cleaned, finished>>

\* How a run ended, for the run after it.
Outcome ==
    IF finished THEN "completed"
    ELSE IF interrupted # "no" THEN "interrupted"
    ELSE "other"

\* sys.exit(1), an uncaught exception, or the return of main()
ExitCode(e) ==
    IF e = NoExc THEN 0
    ELSE IF e = "KeyboardInterrupt" THEN 130
    ELSE 1

\* The interpreter exits: a file object left open is closed when it is
\* released, which flushes its buffer (lines 321-322).
Shutdown ==
    /\ pc = "shutdown"
    /\ exit_code' = ExitCode(exc)
    /\ disk' = disk \o buf
    /\ buf' = <<>>
    /\ fopen' = FALSE
    /\ pc' = "exit"
    /\ UNCHANGED <<runs, cfg, exc, fileExists, gen, stats, marks, report, disk0, prev,
                   unsynced, iterated, interrupted, after_int, io_failed,
                   cleaned, final_report, finished>>

\* ------------------------------------------------------ KeyboardInterrupt
NoteInterrupt(site) ==
    interrupted' = IF interrupted = "no" THEN site ELSE interrupted

\* lines 163-195: no try block is active
InterruptBeforeTry ==
    /\ pc \in PreTry
    /\ exc' = "KeyboardInterrupt"
    /\ pc' = "shutdown"
    /\ NoteInterrupt("before")
    /\ UNCHANGED <<runs, cfg, exit_code, file, gen, stats, marks, report, disk0,
                   prev, unsynced, iterated, after_int, io_failed, cleaned,
                   final_report, finished>>

\* lines 196-293: caught by line 294
InterruptInTry ==
    /\ pc \in InTry
    /\ pc' = "except"
    /\ NoteInterrupt("try")
    /\ UNCHANGED <<runs, cfg, exc, exit_code, file, gen, stats, marks, report,
                   disk0, prev, unsynced, iterated, after_int, io_failed,
                   cleaned, final_report, finished>>

\* line 295: raised in the handler, the finally block runs with it pending
InterruptInHandler ==
    /\ pc = "except"
    /\ exc' = "KeyboardInterrupt"
    /\ pc' = "fin_flush"
    /\ NoteInterrupt("handler")
    /\ UNCHANGED <<runs, cfg, exit_code, file, gen, stats, marks, report, disk0,
                   prev, unsynced, iterated, after_int, io_failed, cleaned,
                   final_report, finished>>

\* lines 296-319: `except Exception` (line 301) does not catch it
InterruptInCleanup ==
    /\ pc \in Cleanup
    /\ exc' = "KeyboardInterrupt"
    /\ pc' = "shutdown"
    /\ NoteInterrupt("cleanup")
    /\ UNCHANGED <<runs, cfg, exit_code, file, gen, stats, marks, report, disk0,
                   prev, unsynced, iterated, after_int, io_failed, cleaned,
                   final_report, finished>>

\* a KeyboardInterrupt arrives, or the handler of line 294 runs
Interrupt ==
    \/ InterruptBeforeTry
    \/ InterruptInTry
    \/ Except
    \/ InterruptInHandler
    \/ InterruptInCleanup

\* ------------------------------------------------------------ I/O failure
\* A write to the file that fails after k characters of the buffer.
Torn(k) ==
    /\ disk' = disk \o SubSeq(buf, 1, k)
    /\ buf' = SubSeq(buf, k + 1, Len(buf))

\* line 234: f.write raises OSError
WriteFails ==
    /\ pc = "test"
    /\ Cur \notin have
    /\ \E k \in 0..Len(buf) :
          /\ disk' = disk \o SubSeq(buf, 1, k)
          /\ buf' = SubSeq(buf, k + 1, Len(buf)) \o Cur \o <<NL>>
    /\ exc' = "OSError"
    /\ io_failed' = io_failed \cup {"primary"}
    /\ pc' = "fin_flush"
    /\ UNCHANGED <<runs, cfg, exit_code, fileExists, fopen, gen, stats, marks,
                   report, disk0, prev, unsynced, iterated, interrupted,
                   after_int, cleaned, final_report, finished>>

\* lines 243-244: f.flush or os.fsync raises OSError
FlushFails ==
    /\ pc = "flushchk"
    /\ cfg.flush_every # 0
    /\ FlushDue(total_written, cfg.flush_every)
    /\ \E k \in 0..Len(buf) : Torn(k)
    /\ exc' = "OSError"
    /\ io_failed' = io_failed \cup {"primary"}
    /\ pc' = "fin_flush"
    /\ UNCHANGED <<runs, cfg, exit_code, fileExists, fopen, gen, stats, marks,
                   report, disk0, prev, unsynced, iterated, interrupted,
                   after_int, cleaned, final_report, finished>>

\* lines 269-270: f.flush or os.fsync raises OSError
EndFlushFails ==
    /\ pc = "end_flush"
    /\ EndFlushDue(total_written, last_flush_written)
    /\ \E k \in 0..Len(buf) : Torn(k)
    /\ exc' = "OSError"
    /\ io_failed' = io_failed \cup {"primary"}
    /\ pc' = "fin_flush"
    /\ UNCHANGED <<runs, cfg, exit_code, fileExists, fopen, gen, stats, marks,
                   report, disk0, prev, unsynced, iterated, interrupted,
                   after_int, cleaned, final_report, finished>>

\* The cleanup without lines 301-302: its failure propagates.
FinFlushFailsRaised ==
    /\ pc = "fin_flush"
    /\ \E k \in 0..Len(buf) : Torn(k)
    /\ io_failed' = io_failed \cup {"cleanup"}
    /\ exc' = "OSError"
    /\ pc' = "shutdown"
    /\ UNCHANGED <<runs, cfg, exit_code, fileExists, fopen, gen, stats,
                   marks, report, disk0, prev, unsynced, iterated, interrupted,
                   after_int, cleaned, final_report, finished>>

\* lines 297-302: flush, fsync or close raises; `except Exception: pass`
FinFlushFails ==
    /\ pc = "fin_flush"
    /\ \E k \in 0..Len(buf) : Torn(k)
    /\ io_failed' = io_failed \cup {"cleanup"}
    /\ pc' = "fin_report"
    /\ UNCHANGED <<runs, cfg, exc, exit_code, fileExists, fopen, gen, stats,
                   marks, report, disk0, prev, unsynced, iterated, interrupted,
                   after_int, cleaned, final_report, finished>>

\* The interpreter exits and the flush of the file left open fails too.
ShutdownFails ==
    /\ pc = "shutdown"
    /\ fopen
    /\ buf # <<>>
    /\ exit_code' = ExitCode(exc)
    /\ \E k \in 0..(Len(buf) - 1) : disk' = disk \o SubSeq(buf, 1, k)
    /\ buf' = <<>>
    /\ fopen' = FALSE
    /\ pc' = "exit"
    /\ UNCHANGED <<runs, cfg, exc, fileExists, gen, stats, marks, report, disk0, prev,
                   unsynced, iterated, interrupted, after_int, io_failed,
                   cleaned, final_report, finished>>

IOFailure ==
    \/ WriteFails
    \/ FlushFails
    \/ EndFlushFails
    \/ FinFlushFails
    \/ ShutdownFails

\* ------------------------------------------------------------ the next run
\* main() is started again on the same output file with arguments c; p is
\* what the new run's history keeps of the run before it.
StartRun(c, p) ==
    /\ pc = "exit"
    /\ runs < MaxRuns
    /\ runs' = runs + 1
    /\ disk0' = disk
    /\ cfg' = c
    /\ pc' = "validate"
    /\ exc' = NoExc
    /\ exit_code' = -1
    /\ fopen' = FALSE
    /\ buf' = <<>>
    /\ L' = 0
    /\ have' = {}
    /\ per_pos' = <<>>
    /\ idx' = 0
    /\ total_attempts' = 0
    /\ total_written' = 0
    /\ total_failed' = 0
    /\ per_len_stats' = EmptyDict
    /\ written_since_last_report' = 0
    /\ last_flush_written' = 0
    /\ report' = <<>>
    /\ unsynced' = 0
    /\ iterated' = [l \in 1..MaxLen |-> 0]
    /\ interrupted' = "no"
    /\ after_int' = 0
    /\ io_failed' = {}
    /\ cleaned' = FALSE
    /\ final_report' = FALSE
    /\ finished' = FALSE
    /\ prev' = p
    /\ UNCHANGED <<fileExists, disk>>

\* any arguments
Rerun ==
    /\ pc = "exit"
    /\ \E c \in Configs : StartRun(c, prev)

\* the same arguments
RerunSame == StartRun(cfg, Outcome)

Program ==
    \/ Validate
    \/ Open
    \/ Setup
    \/ ForNext
    \/ Scan
    \/ MakeGenerator
    \/ Fetch
    \/ Skip
    \/ DupStat
    \/ Write
    \/ AddCount
    \/ WStat
    \/ FlushCheck
    \/ ReportCheck
    \/ EndFlush
    \/ EndReport
    \/ DoneMsg
    \/ FinFlush
    \/ FinReport
    \/ Shutdown

\* Runs of main() one after another on one output file, each with any
\* arguments, each interruptible at any statement.
Next == Program \/ Interrupt \/ Rerun

Spec == Init /\ [][Next]_vars

\* Runs of main() one after another with the same arguments.
NextSame == Program \/ Interrupt \/ RerunSame

SpecSame == Init /\ [][NextSame]_vars

\* The files an ordered run leaves when it is interrupted before its first
\* line and after it.
LeftFiles == {<<>>, <<CHARSET[1], NL>>}

InitOnFile ==
    /\ runs = 1
    /\ disk \in LeftFiles
    /\ fileExists = (disk # <<>>)
    /\ disk0 = disk
    /\ prev = "none"
    /\ \E c \in Configs : Fresh(c)

\* One run of main(), interruptible, on a file whose writes may fail.
NextFault == Program \/ Interrupt \/ IOFailure

SpecFault == InitOnFile /\ [][NextFault]_vars

\* Runs of main() with the same arguments, each left alone.
NextRun == Program \/ RerunSame

SpecRun == Init /\ [][NextRun]_vars

\* ======================================================== properties
Chars == {CHARSET[i] : i \in 1..Len(CHARSET)}

\* Alphabet^n
AllStrings(n) == [1..n -> Chars]

\* C^n
Count(n) == Cardinality(AllStrings(n))

\* the bounds violate 1 <= min <= max
BadBounds == ~(1 <= cfg.min_len /\ cfg.min_len <= cfg.max_len)

\* a line of the file without the "\n" that ends it
Chop(line) ==
    IF line # <<>> /\ line[Len(line)] = NL
    THEN SubSeq(line, 1, Len(line) - 1)
    ELSE line

\* the lines of length n of a file: how many, and which
LineCount(content, n) ==
    LET lines == FileLines(content)
    IN  Cardinality({i \in 1..Len(lines) : Len(Chop(lines[i])) = n})

LineSet(content, n) ==
    LET lines == FileLines(content)
    IN  {Chop(lines[i]) : i \in {j \in 1..Len(lines) : Len(Chop(lines[j])) = n}}

ExactlyOnce(content, n) ==
    /\ LineCount(content, n) = Count(n)
    /\ LineSet(content, n) = AllStrings(n)

RECURSIVE SumCount(_, _)
SumCount(lo, hi) == IF lo > hi THEN 0 ELSE Count(lo) + SumCount(lo + 1, hi)

Range == cfg.min_len..cfg.max_len

\* C1 (completeness): in a run that nothing cuts short and that began on an
\* empty or absent file, when the enumeration of a length L ends the
\* existing-set holds exactly the C^L strings of Alphabet^L, and when the run
\* has ended the file holds, for every length of the range, one line for
\* every string of that length and no other line of that length.
C1_Completeness ==
    /\ (pc \in {"end_flush", "end_report"} /\ disk0 = <<>>) =>
          /\ have = AllStrings(L)
          /\ Cardinality(have) = Count(L)
          /\ per_len_stats[L].existing = Count(L)
    /\ (pc = "exit" /\ finished /\ disk0 = <<>>) =>
          \A l \in Range : ExactlyOnce(disk, l)

C1_Witness ==
    /\ pc = "exit"
    /\ finished
    /\ disk0 = <<>>
    /\ cfg.min_len = 1
    /\ cfg.max_len = MaxLen
    /\ cfg.shuffle
    /\ total_written = SumCount(1, MaxLen)

\* C2 (no duplicates): whatever runs built the file, complete or interrupted,
\* with whatever ranges and modes, no two lines of the same length in it are
\* equal, counting the lines still in the writer's buffer.
C2_NoDuplicates ==
    LET lines == FileLines(disk \o buf)
    IN  \A l \in 1..MaxLen :
            \A i, j \in {k \in 1..Len(lines) : Len(Chop(lines[k])) = l} :
                i # j => Chop(lines[i]) # Chop(lines[j])

C2_Witness ==
    /\ runs > 1
    /\ pc = "exit"
    /\ \E l \in DOMAIN per_len_stats :
          /\ per_len_stats[l].written > 0
          /\ per_len_stats[l].failed > 0
          /\ LineCount(disk0, l) > 0

\* C3 (idempotent resume): a run with the arguments of the run before it,
\* which completed every length, writes nothing and leaves the file as it
\* found it, one line per string of each length of the range; when it has
\* completed, failed = attempts = the sum of C^L over the range.
C3_IdempotentResume ==
    prev = "completed" =>
        /\ total_written = 0
        /\ buf = <<>>
        /\ disk = disk0
        /\ \A l \in Range : ExactlyOnce(disk, l)
        /\ finished =>
              /\ total_failed = SumCount(cfg.min_len, cfg.max_len)
              /\ total_attempts = total_failed

C3_Witness ==
    /\ prev = "completed"
    /\ pc = "exit"
    /\ finished
    /\ exit_code = 0
    /\ cfg.min_len < cfg.max_len
    /\ total_failed = SumCount(cfg.min_len, cfg.max_len)

Conserved ==
    /\ total_attempts = total_written + total_failed
    /\ \A l \in DOMAIN per_len_stats :
          iterated[l] = per_len_stats[l].written + per_len_stats[l].failed

\* main() is about to print the flush progress line or to render a report
AtCheckpoint ==
    \/ pc = "flushchk" /\ cfg.flush_every # 0
                       /\ FlushDue(total_written, cfg.flush_every)
    \/ pc = "repchk" /\ ReportDue(written_since_last_report, cfg.report_every)
    \/ pc = "end_report"
    \/ pc = "fin_report"

\* C4 (conservation): at every checkpoint at which statistics are reported,
\* the final report after an interruption included, attempts = written +
\* failed, and for every length the candidates iterated = written(L) +
\* failed(L).
C4_Conservation == AtCheckpoint => Conserved

\* C5 (resume after interruption): a run that completes after an interrupted
\* run with the same range skips the strings of each length that the file
\* held and writes the missing ones, so that the file holds every string of
\* every length of the range exactly once.
C5_ResumeAfterInterruption ==
    (prev = "interrupted" /\ finished) =>
        \A l \in Range :
            /\ per_len_stats[l].failed = Cardinality(LineSet(disk0, l))
            /\ per_len_stats[l].written =
                  Count(l) - Cardinality(LineSet(disk0, l))
            /\ ExactlyOnce(disk \o buf, l)
            /\ pc = "exit" => ExactlyOnce(disk, l)

C5_Witness ==
    /\ prev = "interrupted"
    /\ finished
    /\ pc = "exit"
    /\ \E l \in Range :
          /\ per_len_stats[l].failed > 0
          /\ per_len_stats[l].written > 0

\* C6 (graceful interruption): once an interrupt has been received by the
\* engine no further candidate is tested or written, and the process ends
\* with the cleanup executed, the final report rendered and no failure.
C6_GracefulInterruption ==
    /\ after_int = 0
    /\ (pc = "exit" /\ interrupted \in {"try", "handler", "cleanup"}) =>
          /\ cleaned
          /\ final_report
          /\ exit_code = 0

\* C7 (validation error): with bounds that violate 1 <= min <= max the
\* process ends with a non-zero status and touches no file: the output file
\* is not opened, created or changed and no report is written.
C7_ValidationError ==
    BadBounds =>
        /\ pc \in {"validate", "shutdown", "exit"}
        /\ ~fopen
        /\ disk = disk0
        /\ buf = <<>>
        /\ runs = 1 => ~fileExists
        /\ report = <<>>
        /\ pc = "exit" => exit_code # 0

C7_Witness ==
    /\ pc = "exit"
    /\ cfg.min_len > cfg.max_len
    /\ cfg.max_len >= 1
    /\ exit_code = 1
    /\ runs > 1
    /\ disk # <<>>

\* C8 as stated (I/O failure propagation): an I/O failure on the output file
\* ends the run with an error unless it is a failure of the cleanup that
\* follows an earlier failure or an interruption.
C8_Original ==
    (pc = "exit" /\ io_failed # {}
        /\ ~("primary" \notin io_failed /\ interrupted # "no"))
    => exit_code # 0

\* C8 as amended: an I/O failure in the enumeration loop ends the run with an
\* error, after the cleanup was entered and, unless an interrupt cut the
\* cleanup short, the final report rendered; a failure of the cleanup's own
\* flush, fsync or close is swallowed whatever preceded it, so that a run that
\* otherwise completed ends with status 0 and its final report rendered.
C8_Propagation ==
    pc = "exit" =>
        /\ "primary" \in io_failed =>
              /\ exit_code # 0
              /\ cleaned \/ "cleanup" \in io_failed \/ interrupted = "cleanup"
              /\ final_report \/ interrupted = "cleanup"
        /\ (io_failed = {"cleanup"} /\ finished /\ interrupted = "no") =>
              /\ exit_code = 0
              /\ final_report

C8_Witness ==
    /\ pc = "exit"
    /\ io_failed = {"primary", "cleanup"}
    /\ exit_code = 1
    /\ final_report
    /\ total_written > 0

\* the tuples the generator has yielded for the current length
Yielded == {Tuple(per_pos, i) : i \in 0..(idx - 1)}

\* what ordered mode yields for a length
OrderedPools(n) == [p \in 1..n |-> CHARSET]
OrderedYield(n) == {Tuple(OrderedPools(n), i) : i \in 0..(Count(n) - 1)}

\* C9 (shuffle invariance): in shuffled mode, whatever the permutations, the
\* generator of a length yields each string once and the strings ordered mode
\* yields, and when it is exhausted the written and failed counts of the
\* length and its lines in the file are those ordered mode ends with on the
\* same file.
C9_ShuffleInvariance ==
    (cfg.shuffle /\ pc \in {"test", "end_flush"}) =>
        /\ \A i, j \in 0..(idx - 1) :
              i # j => Tuple(per_pos, i) # Tuple(per_pos, j)
        /\ pc = "end_flush" =>
              /\ idx = Count(L)
              /\ Yielded = OrderedYield(L)
              /\ per_len_stats[L].written =
                    Cardinality(OrderedYield(L) \ LineSet(disk0, L))
              /\ per_len_stats[L].failed =
                    Cardinality(OrderedYield(L) \cap LineSet(disk0, L))
              /\ LineSet(disk \o buf, L) = LineSet(disk0, L) \cup OrderedYield(L)
              /\ LineCount(disk \o buf, L) = Count(L)

C9_Witness ==
    /\ cfg.shuffle
    /\ pc = "end_flush"
    /\ L = 2
    /\ per_pos[1] # CHARSET
    /\ per_pos[2] = CHARSET
    /\ per_len_stats[L].written > 0
    /\ per_len_stats[L].failed > 0

InRun == pc \notin {"validate", "exit"}

\* C10 as stated (flush discipline), for the flush intervals that allow it
\* (flush_every >= 1): the lines written and not yet durably flushed are
\* always fewer than flush_every, and none is unflushed when a length's
\* report is rendered or the next length is scanned.
C10_Original ==
    /\ (InRun /\ cfg.flush_every >= 1) => unsynced < cfg.flush_every
    /\ pc \in {"end_report", "scan"} => unsynced = 0

\* C10 as amended: for flush_every >= 1 the lines written and not yet durably
\* flushed never exceed flush_every, which they reach only between the write
\* of line 234 and the flush of lines 243-244, and are fewer than flush_every
\* whenever the loop is about to fetch a candidate; and none is unflushed
\* when a length's report is rendered or the next length is scanned.
C10_FlushDiscipline ==
    /\ (InRun /\ cfg.flush_every >= 1) =>
          /\ unsynced <= cfg.flush_every
          /\ (unsynced = cfg.flush_every /\ interrupted = "no"
                /\ io_failed = {}) => pc \in {"add", "wstat", "flushchk"}
          /\ pc = "iter" => unsynced < cfg.flush_every
    /\ pc \in {"end_report", "for", "scan", "gen"} => unsynced = 0

C10_Witness ==
    /\ pc = "end_report"
    /\ cfg.flush_every = 2
    /\ L = 2
    /\ total_written = 5
    /\ last_flush_written = 4
    /\ unsynced = 0
    /\ buf = <<>>
====
